---- MODULE Spec2Model ----
(***************************************************************************)
(* Model of the file layer of maidsafe_nfs: FileHelper (create, delete,    *)
(* update_metadata, update_content, get_versions, read), the Writer        *)
(* (new, write, close) and the directory store they persist through.       *)
(*                                                                         *)
(* Several clients hold in-memory copies of directory listings and race    *)
(* at the store.  The directories form one containment path                *)
(* 1 <- 2 <- ... <- NumDirs (directory 1 is the root).                     *)
(***************************************************************************)
EXTENDS Integers, Sequences, FiniteSets, TLC

\* ---- bounds ------------------------------------------------------------
NumDirs == 3        \* depth of the directory path
MaxTime == 4        \* calls of time::now_utc() where two files are examined
FewTime == 3        \* calls of time::now_utc() elsewhere
MaxVersions == 4    \* versions per chain where file histories are examined
FewVersions == 3    \* versions per chain elsewhere
MaxWrites == 2      \* writes per writer where content is examined
FewWrites == 1      \* writes per writer elsewhere
MaxLen == 2         \* bytes per write
MaxPos == 1         \* highest write position

Clients == {1, 2}
Dirs == 1..NumDirs
Names == {"a", "b"}
UserMetadata == {0, 1}
Modes == {"Overwrite", "Modify"}
Bytes == {1, 2}
Payloads == UNION {[1..n -> Bytes] : n \in 1..MaxLen}
Positions == 0..MaxPos

\* time::empty_tm(): the zero time get_versions starts from
EmptyTm == 0

\* DataMap::None, the empty content reference (the content it decodes to)
DataMapNone == <<>>

VARIABLES
    chain,    \* the store: per DirectoryKey the sequence of stored snapshots
    clock,    \* the last value time::now_utc() returned; every call returns
              \* a later time than the calls before it
    nextId,   \* number of file ids handed out so far
    dir,      \* per client: Option<DirectoryListing> held in memory
    writer,   \* per client: Option<Writer>
    last,     \* per client: what its last call did and returned
    closes    \* per file id: the closes that stored a version holding it

vars == <<chain, clock, nextId, dir, writer, last, closes>>

\* ---- small helpers -----------------------------------------------------
None == <<>>
Some(x) == <<x>>
IsSome(o) == Len(o) = 1
Get(o) == o[1]

Max(a, b) == IF a >= b THEN a ELSE b

IsPrefix(s, t) == Len(s) <= Len(t) /\ SubSeq(t, 1, Len(s)) = s

\* DirectoryListing.parent: the key of the containing directory, 0 for the root
ParentKey(d) == d - 1

\* ---- DirectoryListing --------------------------------------------------
\* DirectoryListing::find_file
find_file(listing, name) == {f \in listing.files : f.name = name}

\* DirectoryListing::find_file_by_id
find_file_by_id(listing, id) == {f \in listing.files : f.id = id}

\* DirectoryListing::upsert_file: replace the entry of the same id, else add
upsert_file(listing, file) ==
    [listing EXCEPT !.files = {f \in @ : f.id # file.id} \cup {file}]

\* DirectoryListing::remove_file (the caller has checked the name is present)
remove_file(listing, name) ==
    [listing EXCEPT !.files = {f \in @ : f.name # name}]

\* the snapshot the store keeps for a listing
SnapshotOf(listing) == [files |-> listing.files, sub |-> listing.sub]

\* the current (last) stored snapshot of a key
Current(ch, d) == ch[d][Len(ch[d])]

\* DirectoryHelper::get: the listing read back from the current version
ListingOf(ch, d) ==
    [key |-> d, files |-> Current(ch, d).files, sub |-> Current(ch, d).sub,
     base |-> Len(ch[d])]

\* ---- DirectoryStore.persist -------------------------------------------
\* Upward propagation after key d moved from version old to version new.
\* failAt = hop makes the backend fail on that hop's append.
RECURSIVE Propagate(_, _, _, _, _, _, _)
Propagate(ch, d, old, new, failAt, hop, anc) ==
    IF ParentKey(d) = 0 THEN [chains |-> ch, res |-> "Ok", anc |-> anc]
    ELSE LET p == ParentKey(d)
             P == Current(ch, p)
         IN  IF P.sub # old THEN [chains |-> ch, res |-> "Ok", anc |-> anc]
             ELSE IF failAt = hop
                  THEN [chains |-> ch, res |-> "StorageFailure", anc |-> anc]
             ELSE LET pold == Len(ch[p])
                      ch1 == [ch EXCEPT ![p] = Append(@, [P EXCEPT !.sub = new])]
                  IN  Propagate(ch1, p, pold, pold + 1, failAt, hop + 1,
                                Append(anc, ListingOf(ch1, p)))

\* update storing the snapshot over the current version
UpdateInPlace(ch, listing, failAt) ==
    LET d == listing.key
        old == Len(ch[d])
    IN  IF failAt = 1
        THEN [chains |-> ch, res |-> "StorageFailure", anc |-> <<>>]
        ELSE IF listing.base # old
        THEN [chains |-> ch, res |-> "Conflict", anc |-> <<>>]
        ELSE [chains |-> [ch EXCEPT ![d][old] = SnapshotOf(listing)],
              res |-> "Ok", anc |-> <<>>]

\* DirectoryHelper::update: compare-and-append on the listing's own chain,
\* then propagation.  anc lists the ancestors that were re-persisted.
Update(ch, listing, failAt) ==
    LET d == listing.key
        old == Len(ch[d])
    IN  IF failAt = 1
        THEN [chains |-> ch, res |-> "StorageFailure", anc |-> <<>>]
        ELSE IF listing.base # old
        THEN [chains |-> ch, res |-> "Conflict", anc |-> <<>>]
        ELSE Propagate([ch EXCEPT ![d] = Append(@, SnapshotOf(listing))],
                       d, old, old + 1, failAt, 2, <<>>)

\* persisting the listing keeps every chain within V versions: there is
\* room, or the listing is stale and nothing will be appended
Fits(listing, V) ==
    \/ \A d \in Dirs : Len(chain[d]) < V
    \/ listing.base # Len(chain[listing.key])

\* ---- File, SelfEncryptor, Reader --------------------------------------
\* File::new(FileMetadata::new(name, user_metadata), DataMap::None)
NewFile(id, name, umd, now) ==
    [id |-> id, name |-> name, umd |-> umd, size |-> 0,
     ctime |-> now, mtime |-> now, datamap |-> DataMapNone]

\* SelfEncryptor::write: data laid over the content at position pos; a gap
\* between the old end and pos reads as zero bytes
SEWrite(content, data, pos) ==
    [i \in 1..Max(Len(content), pos + Len(data)) |->
        IF i > pos /\ i <= pos + Len(data) THEN data[i - pos]
        ELSE IF i <= Len(content) THEN content[i]
        ELSE 0]

\* Reader::size
ReaderSize(file) == Len(file.datamap)

\* Reader::read(position, length)
ReaderRead(file, pos, len) ==
    IF pos + len > ReaderSize(file) THEN [ok |-> FALSE, data |-> <<>>]
    ELSE [ok |-> TRUE, data |-> SubSeq(file.datamap, pos + 1, pos + len)]

\* Writer::new seeding from the file's content whatever the mode
WriterNewKeepsContent(directory, file, mode) ==
    [file |-> file, directory |-> directory, content |-> file.datamap,
     mode |-> mode, orig |-> file.datamap, writes |-> <<>>,
     created |-> FALSE]

\* Writer::new
WriterNew(directory, file, mode) ==
    LET datamap == IF mode = "Overwrite" THEN DataMapNone ELSE file.datamap
    IN  [file |-> file, directory |-> directory, content |-> datamap,
         mode |-> mode, orig |-> file.datamap, writes |-> <<>>,
         created |-> FALSE]

\* the walk of get_versions never recording the time it reported
RECURSIVE VersionsFromNoCoalesce(_, _, _, _)
VersionsFromNoCoalesce(snaps, name, i, modified_time) ==
    IF i > Len(snaps) THEN <<>>
    ELSE LET found == {f \in snaps[i].files : f.name = name}
         IN  IF found # {} /\ (CHOOSE f \in found : TRUE).mtime # modified_time
             THEN LET file == CHOOSE f \in found : TRUE
                  IN  <<file>> \o
                      VersionsFromNoCoalesce(snaps, name, i + 1, modified_time)
             ELSE VersionsFromNoCoalesce(snaps, name, i + 1, modified_time)

\* FileHelper::get_versions: the walk over the stored snapshots of one key,
\* from version i on, modified_time being the time last reported
RECURSIVE VersionsFrom(_, _, _, _)
VersionsFrom(snaps, name, i, modified_time) ==
    IF i > Len(snaps) THEN <<>>
    ELSE LET found == {f \in snaps[i].files : f.name = name}
         IN  IF found # {} /\ (CHOOSE f \in found : TRUE).mtime # modified_time
             THEN LET file == CHOOSE f \in found : TRUE
                  IN  <<file>> \o VersionsFrom(snaps, name, i + 1, file.mtime)
             ELSE VersionsFrom(snaps, name, i + 1, modified_time)

get_versions(ch, name, d) == VersionsFrom(ch[d], name, 1, EmptyTm)

\* ---- what a call leaves behind for its caller --------------------------
NoCall ==
    [op |-> "none", key |-> 0, base |-> 0, res |-> "none", ret |-> "none",
     appended |-> FALSE, anc |-> <<>>, returned |-> <<>>, file |-> None,
     arg |-> None, w |-> None, seen |-> 0, files |-> {}, name |-> "",
     data |-> <<>>]

Called(op, listing, res) ==
    [NoCall EXCEPT !.op = op, !.key = listing.key, !.base = listing.base,
                   !.res = res, !.ret = res, !.files = listing.files,
                   !.seen = Len(chain[listing.key])]

\* Result<Option<DirectoryListing>, NfsError>: at most one listing fits
OptionOf(anc) == IF anc = <<>> THEN <<>> ELSE <<anc[1]>>

\* the records a caller can hold: a copy of an entry of some stored snapshot
\* of the directory, its name and user metadata possibly set anew
StoredFiles(d) == UNION {chain[d][i].files : i \in 1..Len(chain[d])}

CallerRecords(d, N, U) ==
    StoredFiles(d) \cup
    {[f EXCEPT !.name = n, !.umd = u] : f \in StoredFiles(d), n \in N, u \in U}

Init ==
    /\ chain = [d \in Dirs |->
                  << [files |-> {}, sub |-> IF d < NumDirs THEN 1 ELSE 0] >>]
    /\ clock = 0
    /\ nextId = 0
    /\ dir = [c \in Clients |-> None]
    /\ writer = [c \in Clients |-> None]
    /\ last = [c \in Clients |-> NoCall]
    /\ closes = [i \in 1..MaxTime |-> 0]

Forget(c) == last' = [last EXCEPT ![c] = NoCall]

\* DirectoryHelper::get: a client reads the current listing of a directory
Fetch(c, d) ==
    /\ dir' = [dir EXCEPT ![c] = Some(ListingOf(chain, d))]
    /\ dir'[c] # dir[c]
    /\ Forget(c)
    /\ UNCHANGED <<chain, clock, nextId, writer, closes>>

\* create leaving out the look-up of the name in the parent
CreateNoCheck(c, name, umd) ==
    /\ IsSome(dir[c])
    /\ writer[c] = None
    /\ clock < MaxTime
    /\ clock' = clock + 1
    /\ nextId' = nextId + 1
    /\ LET parent_directory == Get(dir[c])
           file == NewFile(nextId + 1, name, umd, clock + 1)
       IN  /\ writer' = [writer EXCEPT ![c] = Some(
                  [WriterNew(parent_directory, file, "Overwrite")
                      EXCEPT !.created = TRUE])]
           /\ last' = [last EXCEPT ![c] =
                  [Called("create", parent_directory, "Ok")
                      EXCEPT !.file = Some(file), !.name = name]]
    /\ dir' = [dir EXCEPT ![c] = None]
    /\ UNCHANGED <<chain, closes>>

\* create saving the empty file in the directory at once
CreateEager(c, name, umd) ==
    /\ IsSome(dir[c])
    /\ writer[c] = None
    /\ LET parent_directory == Get(dir[c])
       IN  IF find_file(parent_directory, name) # {}
           THEN /\ last' = [last EXCEPT ![c] =
                      [Called("create", parent_directory,
                              "FileAlreadyExistsWithSameName")
                          EXCEPT !.name = name]]
                /\ UNCHANGED <<chain, clock, nextId, writer>>
           ELSE /\ clock < MaxTime
                /\ clock' = clock + 1
                /\ nextId' = nextId + 1
                /\ LET file == NewFile(nextId + 1, name, umd, clock + 1)
                       saved == upsert_file(parent_directory, file)
                   IN  /\ chain' = Update(chain, saved, 0).chains
                       /\ writer' = [writer EXCEPT ![c] = Some(
                              [WriterNew(parent_directory, file, "Overwrite")
                                  EXCEPT !.created = TRUE])]
                       /\ last' = [last EXCEPT ![c] =
                              [Called("create", parent_directory, "Ok")
                                  EXCEPT !.file = Some(file), !.name = name]]
    /\ dir' = [dir EXCEPT ![c] = None]
    /\ UNCHANGED closes

\* FileHelper::create
Create(c, name, umd) ==
    /\ IsSome(dir[c])
    /\ writer[c] = None
    /\ LET parent_directory == Get(dir[c])
       IN  IF find_file(parent_directory, name) # {}
           THEN /\ last' = [last EXCEPT ![c] =
                      [Called("create", parent_directory,
                              "FileAlreadyExistsWithSameName")
                          EXCEPT !.name = name]]
                /\ UNCHANGED <<clock, nextId, writer>>
           ELSE /\ clock < MaxTime
                /\ clock' = clock + 1
                /\ nextId' = nextId + 1
                /\ LET file == NewFile(nextId + 1, name, umd, clock + 1)
                   IN  /\ writer' = [writer EXCEPT ![c] = Some(
                              [WriterNew(parent_directory, file, "Overwrite")
                                  EXCEPT !.created = TRUE])]
                       /\ last' = [last EXCEPT ![c] =
                              [Called("create", parent_directory, "Ok")
                                  EXCEPT !.file = Some(file), !.name = name]]
    /\ dir' = [dir EXCEPT ![c] = None]
    /\ UNCHANGED <<chain, closes>>

\* update_content comparing only the ids of the two records
UpdateContentById(c, file, mode) ==
    /\ IsSome(dir[c])
    /\ writer[c] = None
    /\ LET parent_directory == Get(dir[c])
           found == find_file(parent_directory, file.name)
           res == IF found = {} THEN "FileNotFound"
                  ELSE IF (CHOOSE f \in found : TRUE).id # file.id
                       THEN "FileDoesNotMatch"
                  ELSE "Ok"
       IN  /\ writer' = [writer EXCEPT ![c] =
                  IF res = "Ok" THEN Some(WriterNew(parent_directory, file, mode))
                  ELSE None]
           /\ last' = [last EXCEPT ![c] =
                  [Called("update_content", parent_directory, res)
                      EXCEPT !.arg = Some(file)]]
    /\ dir' = [dir EXCEPT ![c] = None]
    /\ UNCHANGED <<chain, clock, nextId, closes>>

\* FileHelper::update_content
UpdateContent(c, file, mode) ==
    /\ IsSome(dir[c])
    /\ writer[c] = None
    /\ LET parent_directory == Get(dir[c])
           found == find_file(parent_directory, file.name)
           res == IF found = {} THEN "FileNotFound"
                  ELSE IF (CHOOSE f \in found : TRUE) # file
                       THEN "FileDoesNotMatch"
                  ELSE "Ok"
       IN  /\ writer' = [writer EXCEPT ![c] =
                  IF res = "Ok" THEN Some(WriterNew(parent_directory, file, mode))
                  ELSE None]
           /\ last' = [last EXCEPT ![c] =
                  [Called("update_content", parent_directory, res)
                      EXCEPT !.arg = Some(file)]]
    /\ dir' = [dir EXCEPT ![c] = None]
    /\ UNCHANGED <<chain, clock, nextId, closes>>

\* write saving the file with the content so far into the directory
WriterWriteFlush(c, data, pos, W) ==
    /\ IsSome(writer[c])
    /\ Len(Get(writer[c]).writes) < W
    /\ writer' = [writer EXCEPT ![c] = Some(
           [Get(@) EXCEPT !.content = SEWrite(@, data, pos),
                          !.writes = Append(@, [data |-> data, pos |-> pos])])]
    /\ LET w == Get(writer'[c])
           file == [w.file EXCEPT !.datamap = w.content]
       IN  chain' = Update(chain, upsert_file(w.directory, file), 0).chains
    /\ Forget(c)
    /\ UNCHANGED <<clock, nextId, dir, closes>>

\* Writer::write
WriterWrite(c, data, pos, W) ==
    /\ IsSome(writer[c])
    /\ Len(Get(writer[c]).writes) < W
    /\ writer' = [writer EXCEPT ![c] = Some(
           [Get(@) EXCEPT !.content = SEWrite(@, data, pos),
                          !.writes = Append(@, [data |-> data, pos |-> pos])])]
    /\ Forget(c)
    /\ UNCHANGED <<chain, clock, nextId, dir, closes>>

\* close leaving out file.set_datamap
WriterCloseKeepsDatamap(c, failAt) ==
    /\ IsSome(writer[c])
    /\ clock < MaxTime
    /\ LET w == Get(writer[c])
           size == Len(w.content)
           file == [w.file EXCEPT !.mtime = clock + 1,
                                  !.size = size]
           directory == upsert_file(w.directory, file)
           r == Update(chain, directory, failAt)
       IN  /\ chain' = r.chains
           /\ closes' = IF r.chains # chain
                        THEN [closes EXCEPT ![file.id] = @ + 1]
                        ELSE closes
           /\ last' = [last EXCEPT ![c] =
                  [Called("close", directory, r.res) EXCEPT
                     !.ret = IF r.res = "Ok" THEN "Ok" ELSE "Failed to save",
                     !.appended = (r.chains # chain),
                     !.anc = IF r.res = "Ok" THEN r.anc ELSE <<>>,
                     !.returned = <<>>,
                     !.file = Some(file),
                     !.w = Some([mode |-> w.mode, orig |-> w.orig,
                                 writes |-> w.writes, created |-> w.created])]]
    /\ clock' = clock + 1
    /\ writer' = [writer EXCEPT ![c] = None]
    /\ UNCHANGED <<nextId, dir>>

\* close leaving out set_modified_time
WriterCloseKeepsTime(c, failAt) ==
    /\ IsSome(writer[c])
    /\ clock < MaxTime
    /\ LET w == Get(writer[c])
           size == Len(w.content)
           file == [w.file EXCEPT !.datamap = w.content,
                                  !.size = size]
           directory == upsert_file(w.directory, file)
           r == Update(chain, directory, failAt)
       IN  /\ chain' = r.chains
           /\ closes' = IF r.chains # chain
                        THEN [closes EXCEPT ![file.id] = @ + 1]
                        ELSE closes
           /\ last' = [last EXCEPT ![c] =
                  [Called("close", directory, r.res) EXCEPT
                     !.ret = IF r.res = "Ok" THEN "Ok" ELSE "Failed to save",
                     !.appended = (r.chains # chain),
                     !.anc = IF r.res = "Ok" THEN r.anc ELSE <<>>,
                     !.returned = <<>>,
                     !.file = Some(file),
                     !.w = Some([mode |-> w.mode, orig |-> w.orig,
                                 writes |-> w.writes, created |-> w.created])]]
    /\ clock' = clock + 1
    /\ writer' = [writer EXCEPT ![c] = None]
    /\ UNCHANGED <<nextId, dir>>

\* close leaving out set_size
WriterCloseKeepsSize(c, failAt) ==
    /\ IsSome(writer[c])
    /\ clock < MaxTime
    /\ LET w == Get(writer[c])
           file == [w.file EXCEPT !.datamap = w.content,
                                  !.mtime = clock + 1]
           directory == upsert_file(w.directory, file)
           r == Update(chain, directory, failAt)
       IN  /\ chain' = r.chains
           /\ closes' = IF r.chains # chain
                        THEN [closes EXCEPT ![file.id] = @ + 1]
                        ELSE closes
           /\ last' = [last EXCEPT ![c] =
                  [Called("close", directory, r.res) EXCEPT
                     !.ret = IF r.res = "Ok" THEN "Ok" ELSE "Failed to save",
                     !.appended = (r.chains # chain),
                     !.anc = IF r.res = "Ok" THEN r.anc ELSE <<>>,
                     !.returned = <<>>,
                     !.file = Some(file),
                     !.w = Some([mode |-> w.mode, orig |-> w.orig,
                                 writes |-> w.writes, created |-> w.created])]]
    /\ clock' = clock + 1
    /\ writer' = [writer EXCEPT ![c] = None]
    /\ UNCHANGED <<nextId, dir>>

\* Writer::close
WriterClose(c, failAt) ==
    /\ IsSome(writer[c])
    /\ clock < MaxTime
    /\ LET w == Get(writer[c])
           size == Len(w.content)
           file == [w.file EXCEPT !.datamap = w.content,
                                  !.mtime = clock + 1,
                                  !.size = size]
           directory == upsert_file(w.directory, file)
           r == Update(chain, directory, failAt)
       IN  /\ chain' = r.chains
           /\ closes' = IF r.chains # chain
                        THEN [closes EXCEPT ![file.id] = @ + 1]
                        ELSE closes
           /\ last' = [last EXCEPT ![c] =
                  [Called("close", directory, r.res) EXCEPT
                     !.ret = IF r.res = "Ok" THEN "Ok" ELSE "Failed to save",
                     !.appended = (r.chains # chain),
                     !.anc = IF r.res = "Ok" THEN r.anc ELSE <<>>,
                     !.returned = <<>>,
                     !.file = Some(file),
                     !.w = Some([mode |-> w.mode, orig |-> w.orig,
                                 writes |-> w.writes, created |-> w.created])]]
    /\ clock' = clock + 1
    /\ writer' = [writer EXCEPT ![c] = None]
    /\ UNCHANGED <<nextId, dir>>

\* delete persisting a listing read anew, not the one the caller derived
DeleteRefetch(c, name, failAt) ==
    /\ IsSome(dir[c])
    /\ LET listing == Get(dir[c])
       IN  IF find_file(listing, name) = {}
           THEN /\ last' = [last EXCEPT ![c] =
                      [Called("delete", listing, "FileNotFound")
                          EXCEPT !.name = name]]
                /\ UNCHANGED <<chain, dir>>
           ELSE LET removed == remove_file(listing, name)
                    r == Update(chain,
                                [removed EXCEPT !.base = Len(chain[listing.key])],
                                failAt)
                   IN  /\ chain' = r.chains
                       /\ dir' = [dir EXCEPT ![c] = Some(removed)]
                       /\ last' = [last EXCEPT ![c] =
                              [Called("delete", listing, r.res) EXCEPT
                                 !.name = name,
                                 !.appended = (r.chains # chain),
                                 !.anc = IF r.res = "Ok" THEN r.anc ELSE <<>>,
                                 !.returned = IF r.res = "Ok"
                                              THEN OptionOf(r.anc) ELSE <<>>]]
    /\ UNCHANGED <<clock, nextId, writer, closes>>

\* delete going on to persist the listing when the name was not found
DeleteNoCheck(c, name, failAt) ==
    /\ IsSome(dir[c])
    /\ LET listing == Get(dir[c])
           removed == remove_file(listing, name)
           r == Update(chain, removed, failAt)
       IN  /\ chain' = r.chains
           /\ dir' = [dir EXCEPT ![c] = Some(
                  IF r.res = "Ok"
                  THEN [removed EXCEPT !.base = @ + 1]
                  ELSE removed)]
           /\ last' = [last EXCEPT ![c] =
                  [Called("delete", listing, r.res) EXCEPT
                     !.name = name,
                     !.appended = (r.chains # chain),
                     !.anc = IF r.res = "Ok" THEN r.anc ELSE <<>>,
                     !.returned = IF r.res = "Ok"
                                  THEN OptionOf(r.anc) ELSE <<>>]]
    /\ UNCHANGED <<clock, nextId, writer, closes>>

\* delete persisting the listing before it reports that the name was absent
DeleteLateCheck(c, name, failAt) ==
    /\ IsSome(dir[c])
    /\ LET listing == Get(dir[c])
           removed == remove_file(listing, name)
           r == Update(chain, removed, failAt)
           res == IF find_file(listing, name) = {} THEN "FileNotFound"
                  ELSE r.res
       IN  /\ chain' = r.chains
           /\ dir' = [dir EXCEPT ![c] = Some(
                  IF r.res = "Ok"
                  THEN [removed EXCEPT !.base = @ + 1]
                  ELSE removed)]
           /\ last' = [last EXCEPT ![c] =
                  [Called("delete", listing, res) EXCEPT
                     !.name = name,
                     !.appended = (r.chains # chain),
                     !.anc = IF res = "Ok" THEN r.anc ELSE <<>>,
                     !.returned = IF res = "Ok"
                                  THEN OptionOf(r.anc) ELSE <<>>]]
    /\ UNCHANGED <<clock, nextId, writer, closes>>

\* FileHelper::delete
Delete(c, name, failAt) ==
    /\ IsSome(dir[c])
    /\ LET listing == Get(dir[c])
       IN  IF find_file(listing, name) = {}
           THEN /\ last' = [last EXCEPT ![c] =
                      [Called("delete", listing, "FileNotFound")
                          EXCEPT !.name = name]]
                /\ UNCHANGED <<chain, dir>>
           ELSE LET removed == remove_file(listing, name)
                       r == Update(chain, removed, failAt)
                   IN  /\ chain' = r.chains
                       /\ dir' = [dir EXCEPT ![c] = Some(
                              IF r.res = "Ok"
                              THEN [removed EXCEPT !.base = @ + 1]
                              ELSE removed)]
                       /\ last' = [last EXCEPT ![c] =
                              [Called("delete", listing, r.res) EXCEPT
                                 !.name = name,
                                 !.appended = (r.chains # chain),
                                 !.anc = IF r.res = "Ok" THEN r.anc ELSE <<>>,
                                 !.returned = IF r.res = "Ok"
                                              THEN OptionOf(r.anc) ELSE <<>>]]
    /\ UNCHANGED <<clock, nextId, writer, closes>>

\* update_metadata leaving out the look-up of the new name
UpdateMetadataAnyName(c, file, failAt) ==
    /\ IsSome(dir[c])
    /\ LET listing == Get(dir[c])
           existing == find_file_by_id(listing, file.id)
           early == IF existing = {} THEN "FileNotFound" ELSE "Ok"
       IN  IF early # "Ok"
           THEN /\ last' = [last EXCEPT ![c] =
                      [Called("update_metadata", listing, early)
                          EXCEPT !.arg = Some(file)]]
                /\ UNCHANGED <<chain, dir>>
           ELSE LET upserted == upsert_file(listing, file)
                       r == Update(chain, upserted, failAt)
                   IN  /\ chain' = r.chains
                       /\ dir' = [dir EXCEPT ![c] = Some(
                              IF r.res = "Ok"
                              THEN [upserted EXCEPT !.base = @ + 1]
                              ELSE upserted)]
                       /\ last' = [last EXCEPT ![c] =
                              [Called("update_metadata", listing, r.res) EXCEPT
                                 !.appended = (r.chains # chain),
                                 !.anc = IF r.res = "Ok" THEN r.anc ELSE <<>>,
                                 !.returned = IF r.res = "Ok"
                                              THEN OptionOf(r.anc) ELSE <<>>,
                                 !.arg = Some(file)]]
    /\ UNCHANGED <<clock, nextId, writer, closes>>

\* update_metadata adding the record beside the entry it found
UpdateMetadataPush(c, file, failAt) ==
    /\ IsSome(dir[c])
    /\ LET listing == Get(dir[c])
           existing == find_file_by_id(listing, file.id)
           early == IF existing = {} THEN "FileNotFound"
                    ELSE IF (CHOOSE f \in existing : TRUE).name # file.name
                            /\ find_file(listing, file.name) # {}
                         THEN "FileAlreadyExistsWithSameName"
                    ELSE "Ok"
       IN  IF early # "Ok"
           THEN /\ last' = [last EXCEPT ![c] =
                      [Called("update_metadata", listing, early)
                          EXCEPT !.arg = Some(file)]]
                /\ UNCHANGED <<chain, dir>>
           ELSE LET upserted == [listing EXCEPT !.files = @ \cup {file}]
                       r == Update(chain, upserted, failAt)
                   IN  /\ chain' = r.chains
                       /\ dir' = [dir EXCEPT ![c] = Some(
                              IF r.res = "Ok"
                              THEN [upserted EXCEPT !.base = @ + 1]
                              ELSE upserted)]
                       /\ last' = [last EXCEPT ![c] =
                              [Called("update_metadata", listing, r.res) EXCEPT
                                 !.appended = (r.chains # chain),
                                 !.anc = IF r.res = "Ok" THEN r.anc ELSE <<>>,
                                 !.returned = IF r.res = "Ok"
                                              THEN OptionOf(r.anc) ELSE <<>>,
                                 !.arg = Some(file)]]
    /\ UNCHANGED <<clock, nextId, writer, closes>>

\* FileHelper::update_metadata
UpdateMetadata(c, file, failAt) ==
    /\ IsSome(dir[c])
    /\ LET listing == Get(dir[c])
           existing == find_file_by_id(listing, file.id)
           early == IF existing = {} THEN "FileNotFound"
                    ELSE IF (CHOOSE f \in existing : TRUE).name # file.name
                            /\ find_file(listing, file.name) # {}
                         THEN "FileAlreadyExistsWithSameName"
                    ELSE "Ok"
       IN  IF early # "Ok"
           THEN /\ last' = [last EXCEPT ![c] =
                      [Called("update_metadata", listing, early)
                          EXCEPT !.arg = Some(file)]]
                /\ UNCHANGED <<chain, dir>>
           ELSE LET upserted == upsert_file(listing, file)
                       r == Update(chain, upserted, failAt)
                   IN  /\ chain' = r.chains
                       /\ dir' = [dir EXCEPT ![c] = Some(
                              IF r.res = "Ok"
                              THEN [upserted EXCEPT !.base = @ + 1]
                              ELSE upserted)]
                       /\ last' = [last EXCEPT ![c] =
                              [Called("update_metadata", listing, r.res) EXCEPT
                                 !.appended = (r.chains # chain),
                                 !.anc = IF r.res = "Ok" THEN r.anc ELSE <<>>,
                                 !.returned = IF r.res = "Ok"
                                              THEN OptionOf(r.anc) ELSE <<>>,
                                 !.arg = Some(file)]]
    /\ UNCHANGED <<clock, nextId, writer, closes>>

\* FileHelper::read: a reader on a record the caller holds beside a listing,
\* asked for its size and for all the bytes
Read(c, file) ==
    /\ IsSome(dir[c])
    /\ LET size == ReaderSize(file)
           out == ReaderRead(file, 0, size)
       IN  last' = [last EXCEPT ![c] =
              [Called("read", Get(dir[c]), IF out.ok THEN "Ok" ELSE "RangeError")
                  EXCEPT !.arg = Some(file), !.data = out.data]]
    /\ UNCHANGED <<chain, clock, nextId, dir, writer, closes>>

\* One call by one of the clients C, its inputs drawn from names N, user
\* metadata U, payloads P at positions Q, at most W writes per writer, the
\* backend failing at one of the hops K (0: never), chains below V versions,
\* the clock read at most T times.
Step(C, N, U, P, Q, W, K, V, T) ==
    \/ \E c \in C : Fetch(c, NumDirs)
    \/ \E c \in C, n \in N :
          /\ IsSome(dir[c])
          /\ clock < T \/ find_file(Get(dir[c]), n) # {}
          /\ Create(c, n, 0)
    \/ \E c \in C, m \in Modes :
          /\ IsSome(dir[c])
          /\ \E file \in CallerRecords(Get(dir[c]).key, N, U) :
                UpdateContent(c, file, m)
    \/ \E c \in C, data \in P, pos \in Q : WriterWrite(c, data, pos, W)
    \/ \E c \in C, k \in K :
          /\ IsSome(writer[c])
          /\ clock < T
          /\ Fits(Get(writer[c]).directory, V)
          /\ WriterClose(c, k)
    \/ \E c \in C, n \in N, k \in K :
          /\ IsSome(dir[c])
          /\ Fits(Get(dir[c]), V)
          /\ Delete(c, n, k)
    \/ \E c \in C, k \in K :
          /\ IsSome(dir[c])
          /\ Fits(Get(dir[c]), V)
          /\ \E file \in CallerRecords(Get(dir[c]).key, N, U) :
                UpdateMetadata(c, file, k)

\* one caller working on the records of a directory, reading them too
Next ==
    \/ Step({1}, Names, UserMetadata, {<<1>>}, {0}, FewWrites, {0},
            MaxVersions, MaxTime)
    \/ \E file \in StoredFiles(NumDirs) : Read(1, file)

Spec == Init /\ [][Next]_vars

\* one caller, the backend failing at any hop of a persist
NextStore == Step({1}, {"a"}, {0}, {<<1>>}, {0}, FewWrites, 0..NumDirs,
                 FewVersions, FewTime)

SpecStore == Init /\ [][NextStore]_vars

\* two callers racing at the store
NextRace == Step(Clients, {"a"}, {0}, {<<1>>}, {0}, FewWrites, {0, 1},
                 FewVersions, FewTime)

SpecRace == Init /\ [][NextRace]_vars

\* one caller, one file, every write
NextContent == Step({1}, {"a"}, {0}, Payloads, Positions, MaxWrites, {0},
                 FewVersions, FewTime)

SpecContent == Init /\ [][NextContent]_vars

\* ---- claims ------------------------------------------------------------
PersistOps == {"close", "delete", "update_metadata"}

\* the call reached the store's compare-and-append
Compared(c) == last[c].op \in PersistOps /\ last[c].res \in {"Ok", "Conflict"}

\* C1: of two persist calls on one key derived from the same version, the
\* one that finds the chain still at that version succeeds and appends, the
\* other fails with Conflict and appends nothing.
C1_RaceOneWins ==
    \A c1 \in Clients, c2 \in Clients :
        ( /\ c1 # c2
          /\ Compared(c1) /\ Compared(c2)
          /\ last[c1].key = last[c2].key
          /\ last[c1].base = last[c2].base
          /\ last[c1].seen = last[c1].base )
        => /\ last[c1].res = "Ok" /\ last[c1].appended
           /\ last[c2].res = "Conflict" /\ ~last[c2].appended
           /\ Len(chain[last[c1].key]) > last[c1].base

C1_Witness ==
    /\ last[1].op = "close" /\ last[1].res = "Conflict"
    /\ last[2].op = "delete" /\ last[2].res = "Ok"
    /\ last[1].key = last[2].key /\ last[1].base = last[2].base

\* the entry of the passed listing that carries the record's id
StoredById(c) == {f \in last[c].files : f.id = Get(last[c].arg).id}

\* the entry of the passed listing that carries the record's name
StoredByName(c) == {f \in last[c].files : f.name = Get(last[c].arg).name}

\* C2 (as claimed): update_content fails with FileDoesNotMatch whenever the
\* record differs from the stored entry in any field, the name included.
C2_AnyFieldConflict ==
    \A c \in Clients :
        last[c].op = "update_content" =>
            /\ \A f \in StoredById(c) :
                  f # Get(last[c].arg) => last[c].res = "FileDoesNotMatch"
            /\ last[c].res = "Ok" => Get(last[c].arg) \in last[c].files

\* C2 (amended): update_content fails with FileNotFound when no entry has
\* the record's name, with FileDoesNotMatch when the entry of that name
\* differs from the record in any field, and returns a writer only when
\* the record equals the stored entry.
C2_StaleRecordRejected ==
    \A c \in Clients :
        last[c].op = "update_content" =>
            /\ StoredByName(c) = {} => last[c].res = "FileNotFound"
            /\ (StoredByName(c) # {} /\ Get(last[c].arg) \notin StoredByName(c))
                  => last[c].res = "FileDoesNotMatch"
            /\ last[c].res = "Ok" <=> Get(last[c].arg) \in last[c].files
            /\ last[c].res = "Ok" <=> IsSome(writer[c])

C2_Witness ==
    \E c \in Clients :
        /\ last[c].op = "update_content"
        /\ last[c].res = "FileDoesNotMatch"
        /\ \E f \in StoredByName(c) :
              /\ f.id = Get(last[c].arg).id
              /\ f.umd = Get(last[c].arg).umd
              /\ f.datamap # Get(last[c].arg).datamap

\* C3 (as claimed): a successful persist hands its caller every ancestor
\* listing it re-persisted, the immediate parent first.
C3_ReturnsAllAncestors ==
    \A c \in Clients :
        (last[c].op \in PersistOps /\ last[c].res = "Ok")
            => last[c].returned = last[c].anc

\* C4: a step never removes, reorders or replaces a stored version: every
\* chain keeps its previous value as a prefix.
C4_ChainOnlyGrows ==
    [][\A d \in Dirs : IsPrefix(chain[d], chain'[d])]_vars

C4_Witness ==
    \E c \in Clients :
        /\ last[c].op \in PersistOps
        /\ last[c].res = "StorageFailure"
        /\ last[c].appended
        /\ Len(chain[NumDirs]) = 3

\* C5 (as claimed): a close that succeeds has stored the updated record in
\* the version it appended; a close that fails has left every chain as it was.
C5_CloseAtomic ==
    \A c \in Clients :
        last[c].op = "close" =>
            /\ last[c].ret = "Ok" =>
                  /\ Len(chain[last[c].key]) > last[c].base
                  /\ Get(last[c].file) \in
                        chain[last[c].key][last[c].base + 1].files
            /\ last[c].ret # "Ok" => ~last[c].appended

\* C6 (as claimed): a close whose persist failed returns the kind of the
\* failure, Conflict or StorageFailure.
C6_CloseReportsKind ==
    \A c \in Clients :
        (last[c].op = "close" /\ last[c].res # "Ok")
            => last[c].ret = last[c].res

\* the entries the version appended by the last call of c holds
StoredAfter(c) == chain[last[c].key][last[c].base + 1].files

\* C7: after create, one write of a payload at position 0 and a successful
\* close, the stored record has the payload's length as its size, the reader
\* reports that size and every sub-range reads back the bytes written.
C7_RoundTrip ==
    \A c \in Clients :
        ( /\ last[c].op = "close" /\ last[c].ret = "Ok"
          /\ Get(last[c].w).created
          /\ Len(Get(last[c].w).writes) = 1
          /\ Get(last[c].w).writes[1].pos = 0 )
        => LET payload == Get(last[c].w).writes[1].data
               stored == {f \in StoredAfter(c) : f.name = Get(last[c].file).name}
           IN  /\ stored # {}
               /\ \A f \in stored :
                     /\ f.size = Len(payload)
                     /\ ReaderSize(f) = Len(payload)
                     /\ \A pos \in 0..Len(payload) :
                           \A len \in 0..(Len(payload) - pos) :
                              ReaderRead(f, pos, len) =
                                 [ok |-> TRUE,
                                  data |-> SubSeq(payload, pos + 1, pos + len)]

C7_Witness ==
    \E c \in Clients :
        /\ last[c].op = "close" /\ last[c].ret = "Ok"
        /\ Get(last[c].w).created
        /\ Get(last[c].w).writes = << [data |-> <<1, 2>>, pos |-> 0] >>

\* the writes of a writer that cover byte i (counted from 1)
Covering(writes, i) ==
    {j \in 1..Len(writes) :
        writes[j].pos < i /\ i <= writes[j].pos + Len(writes[j].data)}

Highest(S) == CHOOSE x \in S : \A y \in S : y <= x

\* C8: the content a successful close stores holds, at every byte, the data of
\* the latest write covering it; an uncovered byte holds its previous value
\* when the writer was opened in Modify mode, and nothing of the previous
\* content when it was opened in Overwrite mode (a gap reads as zero); the
\* content ends at the furthest write, or at the previous end in Modify mode.
C8_ModeSeedsContent ==
    \A c \in Clients :
        (last[c].op = "close" /\ last[c].ret = "Ok") =>
            LET w == Get(last[c].w)
                seed == IF w.mode = "Modify" THEN w.orig ELSE <<>>
                ends == {w.writes[j].pos + Len(w.writes[j].data) :
                            j \in 1..Len(w.writes)} \cup {Len(seed)}
            IN  \A f \in {g \in StoredAfter(c) : g.id = Get(last[c].file).id} :
                    /\ Len(f.datamap) = Highest(ends)
                    /\ \A i \in 1..Len(f.datamap) :
                          f.datamap[i] =
                             IF Covering(w.writes, i) # {}
                             THEN LET j == Highest(Covering(w.writes, i))
                                  IN  w.writes[j].data[i - w.writes[j].pos]
                             ELSE IF i <= Len(seed) THEN seed[i]
                             ELSE 0

C8_Witness ==
    \E c \in Clients :
        /\ last[c].op = "close" /\ last[c].ret = "Ok"
        /\ Get(last[c].w).mode = "Modify"
        /\ Len(Get(last[c].w).writes) = 2
        /\ Get(last[c].w).writes[1].pos = Get(last[c].w).writes[2].pos
        /\ Get(last[c].w).writes[1].data[1] # Get(last[c].w).writes[2].data[1]
        /\ Len(Get(last[c].w).orig) = 3
        /\ Covering(Get(last[c].w).writes, 3) = {}

\* the entry of a name in version i of a chain, and its modified time
EntryAt(snaps, name, i) == {f \in snaps[i].files : f.name = name}

TimeAt(snaps, name, i) == (CHOOSE f \in EntryAt(snaps, name, i) : TRUE).mtime

\* the modified time of the nearest earlier version holding the name
TimeBefore(snaps, name, i) ==
    LET earlier == {j \in 1..(i - 1) : EntryAt(snaps, name, j) # {}}
    IN  IF earlier = {} THEN EmptyTm
        ELSE TimeAt(snaps, name, Highest(earlier))

\* the versions whose entry of the name changed its modified time
Changed(snaps, name) ==
    {i \in 1..Len(snaps) :
        /\ EntryAt(snaps, name, i) # {}
        /\ TimeAt(snaps, name, i) # TimeBefore(snaps, name, i)}

\* C9: get_versions returns, oldest first, the entry of the name from exactly
\* those versions of the chain where its modified time differs from the one
\* before; no two adjacent entries of the result share a modified time.
C9_VersionsCoalesced ==
    \A d \in Dirs, name \in Names :
        LET v == get_versions(chain, name, d)
            R == Changed(chain[d], name)
        IN  /\ Len(v) = Cardinality(R)
            /\ \A k \in 1..Len(v) :
                  LET i == CHOOSE x \in R : Cardinality({y \in R : y <= x}) = k
                  IN  v[k] \in EntryAt(chain[d], name, i)
            /\ \A k \in 1..(Len(v) - 1) : v[k].mtime # v[k + 1].mtime

C9_Witness ==
    \E name \in Names :
        /\ Len(get_versions(chain, name, NumDirs)) = 2
        /\ Cardinality({i \in 1..Len(chain[NumDirs]) :
               EntryAt(chain[NumDirs], name, i) # {}}) = 3

\* C10 (as claimed): get_versions of a file returns one entry per close that
\* stored it, strictly increasing by modified time.
C10_OneEntryPerClose ==
    \A d \in Dirs :
        \A f \in Current(chain, d).files :
            LET v == get_versions(chain, f.name, d)
            IN  /\ Len(v) = closes[f.id]
                /\ \A k \in 1..(Len(v) - 1) : v[k].mtime < v[k + 1].mtime

\* the name was this file's in every version, and no other file's
KeptName(d, f) ==
    \A g \in StoredFiles(d) : (g.name = f.name) <=> (g.id = f.id)

\* no version holds the file with an older modified time than the one before
NoOlderCopy(d, f) ==
    \A i \in 1..Len(chain[d]), j \in 1..Len(chain[d]) :
        i < j =>
            \A g \in chain[d][i].files, h \in chain[d][j].files :
                (g.id = f.id /\ h.id = f.id) => g.mtime <= h.mtime

\* C10 (amended): for a file that kept its name, whose name no other file of
\* the directory ever had, and of which no older copy was stored back,
\* get_versions returns one entry per close that stored it, strictly
\* increasing by modified time; other persists add no entry.
C10_OneEntryPerCloseOfNamedFile ==
    \A d \in Dirs :
        \A f \in Current(chain, d).files :
            (KeptName(d, f) /\ NoOlderCopy(d, f)) =>
                LET v == get_versions(chain, f.name, d)
                IN  /\ Len(v) = closes[f.id]
                    /\ \A k \in 1..(Len(v) - 1) : v[k].mtime < v[k + 1].mtime

C10_Witness ==
    \E f \in Current(chain, NumDirs).files :
        /\ KeptName(NumDirs, f) /\ NoOlderCopy(NumDirs, f)
        /\ closes[f.id] = 2
        /\ Len(chain[NumDirs]) = 4
        /\ \E c \in Clients :
              last[c].op = "update_metadata" /\ last[c].res = "Ok"

\* the ids of the records some stored snapshot of key d holds
StoredIds(d) == {f.id : f \in StoredFiles(d)}

\* C11: create fails with FileAlreadyExistsWithSameName exactly when the
\* parent listing holds an entry of that name; otherwise it returns a writer
\* in mode Overwrite, holding the parent listing and a new record of that
\* name with a fresh id and DataMap::None, nothing written yet.
C11_CreateChecksName ==
    \A c \in Clients :
        last[c].op = "create" =>
            LET present == \E f \in last[c].files : f.name = last[c].name
            IN  /\ (last[c].res = "FileAlreadyExistsWithSameName") <=> present
                /\ present => writer[c] = None
                /\ ~present =>
                      /\ last[c].res = "Ok"
                      /\ IsSome(writer[c])
                      /\ LET w == Get(writer[c])
                         IN  /\ w.mode = "Overwrite"
                             /\ w.content = DataMapNone
                             /\ w.writes = <<>>
                             /\ w.file = Get(last[c].file)
                             /\ w.file.name = last[c].name
                             /\ w.file.datamap = DataMapNone
                             /\ w.file.size = 0
                             /\ w.file.id \notin StoredIds(last[c].key)
                             /\ w.directory.files = last[c].files

\* a create was refused for a name the listing holds, beside another entry
C11_Witness ==
    \E c \in Clients :
        /\ last[c].op = "create"
        /\ last[c].res = "FileAlreadyExistsWithSameName"
        /\ Cardinality(last[c].files) = 2

\* C12: the step that hands out a writer (create, update_content) and every
\* write on it leave every chain as it was, and while a writer made by create
\* is held and not closed, no stored snapshot of its directory holds its file.
C12_NothingStoredBeforeClose ==
    [][\A c \in Clients :
          IsSome(writer'[c]) =>
              /\ writer'[c] # writer[c] => chain' = chain
              /\ LET w == Get(writer'[c])
                 IN  w.created =>
                        \A i \in 1..Len(chain'[w.directory.key]) :
                           \A f \in chain'[w.directory.key][i].files :
                              f.id # w.file.id]_vars

\* a writer made by create has taken two writes and is not closed, its
\* directory still at the version the listing was read from
C12_Witness ==
    \E c \in Clients :
        /\ IsSome(writer[c])
        /\ Get(writer[c]).created
        /\ Len(Get(writer[c]).writes) >= 2
        /\ Len(chain[NumDirs]) = Get(writer[c]).directory.base

\* the call was update_metadata with a record whose id the listing holds
\* under another name, the record's name being that of another entry
RenamedOntoSibling(call) ==
    /\ call.op = "update_metadata"
    /\ \E e \in call.files :
          /\ e.id = Get(call.arg).id
          /\ e.name # Get(call.arg).name
    /\ \E g \in call.files :
          /\ g.id # Get(call.arg).id
          /\ g.name = Get(call.arg).name

\* C13: update_metadata with a record whose name differs from the stored
\* name of the entry with its id and equals the name of another entry fails
\* with FileAlreadyExistsWithSameName, and the step changes neither the
\* caller's listing nor any chain.
C13_RenameOntoSiblingRefused ==
    [][\A c \in Clients :
          (last'[c] # last[c] /\ RenamedOntoSibling(last'[c])) =>
              /\ last'[c].res = "FileAlreadyExistsWithSameName"
              /\ last'[c].ret = "FileAlreadyExistsWithSameName"
              /\ dir'[c] = dir[c]
              /\ chain' = chain]_vars

\* such a rename was asked for and refused
C13_Witness ==
    \E c \in Clients :
        /\ RenamedOntoSibling(last[c])
        /\ last[c].res = "FileAlreadyExistsWithSameName"
        /\ IsSome(dir[c])
        /\ Get(dir[c]).files = last[c].files

\* the entries of a set of files that carry the id
WithId(files, id) == {f \in files : f.id = id}

\* C14: update_metadata looks the entry up by the id of the record: when the
\* listing holds no entry of that id it returns FileNotFound and the step
\* changes neither the listing nor any chain; when it returns Ok the
\* caller's listing and the snapshot stored holds exactly one entry of that
\* id, the record passed in, the other entries are those of before, the
\* number of entries is the same and the directory's chain is one longer.
C14_MetadataById ==
    [][\A c \in Clients :
          (last'[c] # last[c] /\ last'[c].op = "update_metadata") =>
              LET call == last'[c]
                  file == Get(call.arg)
                  d == call.key
              IN  /\ WithId(call.files, file.id) = {} =>
                        /\ call.res = "FileNotFound"
                        /\ dir'[c] = dir[c]
                        /\ chain' = chain
                  /\ call.res = "FileNotFound" =>
                        WithId(call.files, file.id) = {}
                  /\ call.res = "Ok" =>
                        /\ Len(chain'[d]) = Len(chain[d]) + 1
                        /\ SubSeq(chain'[d], 1, Len(chain[d])) = chain[d]
                        /\ Current(chain', d).files = Get(dir'[c]).files
                        /\ WithId(Get(dir'[c]).files, file.id) = {file}
                        /\ Get(dir'[c]).files \ {file} =
                              call.files \ WithId(call.files, file.id)
                        /\ Cardinality(Get(dir'[c]).files) =
                              Cardinality(call.files)]_vars

\* a record with new user metadata replaced its entry beside another entry
C14_Witness ==
    \E c \in Clients :
        /\ last[c].op = "update_metadata"
        /\ last[c].res = "Ok"
        /\ Cardinality(last[c].files) = 2
        /\ Get(last[c].arg) \notin last[c].files
        /\ Get(last[c].arg) \in Current(chain, last[c].key).files

\* the entries of a set of files that carry the name
Named(files, name) == {f \in files : f.name = name}

Recreated(c) ==
    /\ last[c].op = "close"
    /\ last[c].res = "Ok"
    /\ Get(last[c].w).created
    /\ \E i \in 1..last[c].base :
          \E g \in Named(chain[last[c].key][i].files, Get(last[c].file).name) :
             WithId(chain[last[c].key][last[c].base].files, g.id) = {}

\* C16: after delete(name), create(name), writes and close in one directory
\* the current snapshot holds under that name the new file alone, its
\* content reading back what was written last; every record the name stood
\* for in an earlier version has another id, a deleted one is in the current
\* snapshot under no name, and the earlier versions still yield the old
\* record: get_versions for the name reports it before the new file.
C16_RecreateAfterDelete ==
    \A c \in Clients :
        Recreated(c) =>
            LET d == last[c].key
                b == last[c].base
                f == Get(last[c].file)
                writes == Get(last[c].w).writes
                vs == get_versions(chain, f.name, d)
            IN  /\ Len(chain[d]) = b + 1
                /\ Named(Current(chain, d).files, f.name) = {f}
                /\ writes # <<>> =>
                      LET wr == writes[Len(writes)]
                      IN  ReaderRead(f, wr.pos, Len(wr.data)) =
                             [ok |-> TRUE, data |-> wr.data]
                /\ writes = <<>> => ReaderSize(f) = 0
                /\ \A i \in 1..b :
                      \A g \in Named(chain[d][i].files, f.name) :
                         /\ g.id # f.id
                         /\ WithId(chain[d][b].files, g.id) = {} =>
                               /\ WithId(Current(chain, d).files, g.id) = {}
                               /\ g.datamap # f.datamap =>
                                     \A h \in Current(chain, d).files :
                                        h.name = f.name => h.datamap # g.datamap
                /\ vs[Len(vs)] = f
                /\ \E j \in 1..(Len(vs) - 1) : vs[j].id # f.id

\* a name was deleted and created again, the new file written and closed,
\* the old file's content being another
C16_Witness ==
    \E c \in Clients :
        /\ Recreated(c)
        /\ Get(last[c].w).writes # <<>>
        /\ \E g \in StoredFiles(last[c].key) :
              /\ g.name = Get(last[c].file).name
              /\ g.id # Get(last[c].file).id
              /\ g.datamap # Get(last[c].file).datamap

\* the step is a close of a writer bound to the file of that id
ClosedFile(id) ==
    \E c \in Clients :
        /\ IsSome(writer[c])
        /\ writer'[c] = None
        /\ Get(writer[c]).file.id = id

\* C17: an entry keeps its id, and the content reference a directory's
\* current snapshot holds for an id differs from one step to the next only
\* when the step is a close of a writer bound to that file: no
\* update_metadata, delete or other call alters it.
C17_ContentOnlyByClose ==
    [][\A d \in Dirs :
          \A f \in Current(chain, d).files :
             \A g \in Current(chain', d).files :
                (f.id = g.id /\ f.datamap # g.datamap) => ClosedFile(f.id)]_vars

\* no two entries of the set of files carry one name
UniqueNames(files) ==
    \A f \in files : \A g \in files : f.name = g.name => f = g

\* C18: no listing holds two entries of one name: not a stored snapshot of
\* any version of any directory, not a listing a caller or a writer holds in
\* memory, not the listing a close, delete or update_metadata worked on.
C18_NamesUnique ==
    /\ \A d \in Dirs : \A i \in 1..Len(chain[d]) :
          UniqueNames(chain[d][i].files)
    /\ \A c \in Clients :
          /\ IsSome(dir[c]) => UniqueNames(Get(dir[c]).files)
          /\ IsSome(writer[c]) =>
                /\ UniqueNames(Get(writer[c]).directory.files)
                /\ UniqueNames(upsert_file(Get(writer[c]).directory,
                                           Get(writer[c]).file).files)
          /\ UniqueNames(last[c].files)

\* the current snapshot holds two entries, one of them stored under the
\* other's name in an earlier version: it was renamed, the name created anew
C18_Witness ==
    \E f \in Current(chain, NumDirs).files :
        \E g \in Current(chain, NumDirs).files :
            /\ f.id # g.id
            /\ \E h \in StoredFiles(NumDirs) : h.id = f.id /\ h.name = g.name

\* the furthest byte offset the writes of a writer cover, merged in Modify
\* mode with the end of the content the file had
Extent(w) ==
    Highest({w.writes[j].pos + Len(w.writes[j].data) : j \in 1..Len(w.writes)}
            \cup {IF w.mode = "Modify" THEN Len(w.orig) ELSE 0})

\* C19: the size a successful close records in the stored entry is the
\* furthest offset its writes cover, merged in Modify mode with the extent
\* of the previous content (so a shorter Overwrite shrinks the file and a
\* shorter Modify keeps its length), and it is the size the reader reports:
\* a read of that many bytes from 0 succeeds, of one more fails.
C19_SizeIsExtent ==
    \A c \in Clients :
        (last[c].op = "close" /\ last[c].ret = "Ok") =>
            \A f \in WithId(StoredAfter(c), Get(last[c].file).id) :
                /\ f.size = Extent(Get(last[c].w))
                /\ f.size = ReaderSize(f)
                /\ ReaderRead(f, 0, f.size).ok
                /\ ~ReaderRead(f, 0, f.size + 1).ok

\* an Overwrite of one byte over a file of three bytes was closed
C19_Witness ==
    \E c \in Clients :
        /\ last[c].op = "close" /\ last[c].ret = "Ok"
        /\ Get(last[c].w).mode = "Overwrite"
        /\ Len(Get(last[c].w).orig) = 3
        /\ Get(last[c].w).writes = << [data |-> <<2>>, pos |-> 0] >>
        /\ \E f \in StoredAfter(c) : f.size = 1

\* C20: update_content looks the entry up by the name of the record and
\* returns FileNotFound exactly when the listing holds no entry of that
\* name; and a step of update_content, whatever it returns, of create or of
\* read leaves every chain as it was, no version being appended.
C20_NoPersistWithoutClose ==
    [][\A c \in Clients :
          (last'[c] # last[c]
             /\ last'[c].op \in {"update_content", "create", "read"}) =>
              /\ chain' = chain
              /\ \A d \in Dirs : Len(chain'[d]) = Len(chain[d])
              /\ last'[c].op = "update_content" =>
                    ((last'[c].res = "FileNotFound") <=>
                        Named(last'[c].files, Get(last'[c].arg).name) = {})
              /\ last'[c].op = "read" =>
                    /\ last'[c].res = "Ok"
                    /\ last'[c].data = Get(last'[c].arg).datamap]_vars

\* update_content found no entry of the record's name in a listing that
\* holds an entry, the chain as long as the call found it
C20_Witness ==
    \E c \in Clients :
        /\ last[c].op = "update_content"
        /\ last[c].res = "FileNotFound"
        /\ last[c].files # {}
        /\ Len(chain[last[c].key]) = last[c].seen
        /\ last[c].seen >= 3

\* the errors delete and update_metadata return before the store is reached
\* (close has none: it always reaches the store)
EarlyErrors == {"FileNotFound", "FileAlreadyExistsWithSameName"}

\* C21: a step of close, delete or update_metadata that returns Ok makes the
\* chain of the directory it worked on exactly one version longer, the
\* versions it had staying as they were; a step of one of them that returns
\* FileNotFound or FileAlreadyExistsWithSameName leaves every chain as it was.
C21_OneVersionPerPersist ==
    [][\A c \in Clients :
          (last'[c] # last[c] /\ last'[c].op \in PersistOps) =>
              LET call == last'[c]
                  d == call.key
              IN  /\ call.ret = "Ok" =>
                        /\ Len(chain'[d]) = Len(chain[d]) + 1
                        /\ SubSeq(chain'[d], 1, Len(chain[d])) = chain[d]
                  /\ call.res \in EarlyErrors =>
                        /\ call.ret = call.res
                        /\ chain' = chain]_vars

\* a delete succeeded on a chain of two versions or more: that chain is one
\* version longer than the call found it, the parent was persisted anew
C21_Witness ==
    \E c \in Clients :
        /\ last[c].op = "delete"
        /\ last[c].ret = "Ok"
        /\ last[c].seen >= 2
        /\ Len(chain[last[c].key]) = last[c].seen + 1
        /\ last[c].anc # <<>>

====
